---- MODULE Spec2Model ----
(***************************************************************************)
(* Model of src/main.c: the decoder of a 32-character binary IEEE 754      *)
(* single-precision string (split_binary_float, parse_bits,                *)
(* convert_ieee_float and main).                                           *)
(*                                                                         *)
(* Characters are their ASCII codes.  A C string is the sequence of the    *)
(* cells of its array, the C index i being the TLA+ index i + 1.           *)
(* A float is [m, e], the value m * 2^e with m odd (or m = 0, e = 0); a    *)
(* double is [neg, m, e], the value (-1)^neg * m * 2^e, so that +0.0 and   *)
(* -0.0 are different doubles.  Every float operation rounds its exact     *)
(* result to 24 significant bits, to nearest, ties to even, as the         *)
(* program's build (FLT_EVAL_METHOD 0) does; the exponent range of the     *)
(* formats is not reached within the bounds and is not modelled.           *)
(***************************************************************************)
EXTENDS Integers, Sequences, FiniteSets, TLC

VARIABLES
  pc,                 \* position of main: "scanf", "split", "convert", "finish", "done"
  user_binary_float,  \* main's char user_binary_float[33]
  input_len,          \* number of characters scanf stored before the terminator
  heap,               \* the malloc'ed blocks: status, number of free() calls, contents
  parsed_float,       \* main's char **parsed_float
  malloc_fail_at,     \* which malloc of split_binary_float returned NULL (0: none)
  cells_read,         \* the indices of user_binary_float that split_binary_float read
  decimal_float,      \* main's double decimal_float
  err_stream,         \* the messages perror wrote
  outcome,            \* "running", "returned" (main returned) or "crashed"
  exit_status,        \* the value main returned
  binary_string,      \* parse_bits taken alone: its argument
  is_fractional,      \* parse_bits taken alone: its flag
  parse_pc,           \* parse_bits taken alone: "input", "called"
  acc                 \* parse_bits taken alone: the value it returned

vars == <<pc, user_binary_float, input_len, heap, parsed_float, malloc_fail_at,
          cells_read, decimal_float, err_stream, outcome, exit_status,
          binary_string, is_fractional, parse_pc, acc>>

mainVars == <<pc, user_binary_float, input_len, heap, parsed_float, malloc_fail_at,
              cells_read, decimal_float, err_stream, outcome, exit_status>>

parseVars == <<binary_string, is_fractional, parse_pc, acc>>

-----------------------------------------------------------------------------
(* Bounds of the model. *)

\* an input of scanf is at most this many characters short of 32
MaxMissing == 2

\* an argument of parse_bits taken alone has at most this many '1' characters
MaxParseOnes == 2

\* an argument of parse_bits taken alone has at most this many characters
MaxLen == 26

-----------------------------------------------------------------------------
(* Program constants. *)

NUL == 0                \* '\0'
Char0 == 48             \* '0'
Char1 == Char0 + 1      \* '1'
BufferSize == 33        \* char user_binary_float[33]
ExponentBits == 8       \* i < 8
FractionBits == 23      \* i < 23
InputBits == 1 + ExponentBits + FractionBits   \* the 32 bits of the input
exponent_size == 127    \* int exponent_size = 127
SpecialExponent == 255  \* exponent == 255
FLT_MANT_DIG == 24      \* significand bits of float
DBL_MANT_DIG == 53      \* significand bits of double

NULL == [obj |-> "NULL", off |-> 0]

Ptr(o, k) == [obj |-> o, off |-> k]

AllocError == "Memory allocation error.\n"
ExponentError == "Exponent is 255\n"

\* TRUE, once the value of an assignment has been computed: a loop computes
\* each of its assignments when it is reached, not when the loop has ended
Assigned(v) == v = v

-----------------------------------------------------------------------------
(* Floating-point arithmetic. *)

Pow2(n) == 2 ^ n

Min(a, b) == IF a <= b THEN a ELSE b

\* the integers of the model are below 2^30
IntBits == 0..29

\* the number of significant bits of m
BitLength(m) == IF m = 0 THEN 0 ELSE 1 + CHOOSE k \in IntBits : Pow2(k) <= m /\ m < Pow2(k + 1)

\* the number of trailing zero bits of m > 0
TrailingZeros(m) == CHOOSE k \in IntBits : m % Pow2(k) = 0 /\ m % Pow2(k + 1) # 0

\* m * 2^e with m made odd
Normalize(m, e) ==
  IF m = 0 THEN [m |-> 0, e |-> 0]
  ELSE LET k == TrailingZeros(m) IN [m |-> m \div Pow2(k), e |-> e + k]

\* m * 2^e rounded to p significant bits, to nearest, ties to even
RoundToPrecision(m, e, p) ==
  LET k == BitLength(m) - p IN
  IF k <= 0 THEN Normalize(m, e)
  ELSE LET q    == m \div Pow2(k)
           r    == m % Pow2(k)
           half == Pow2(k - 1)
           up   == r > half \/ (r = half /\ q % 2 = 1)
       IN  Normalize(IF up THEN q + 1 ELSE q, e + k)

IntToFloat(n) == RoundToPrecision(n, 0, FLT_MANT_DIG)

FloatAdd(a, b) ==
  LET e == Min(a.e, b.e) IN
  RoundToPrecision(a.m * Pow2(a.e - e) + b.m * Pow2(b.e - e), e, FLT_MANT_DIG)

FloatMul(a, b) == RoundToPrecision(a.m * b.m, a.e + b.e, FLT_MANT_DIG)

FloatDiv2(a) == Normalize(a.m, a.e - 1)

FloatZero == [m |-> 0, e |-> 0]     \* float acc = 0.0
FloatHalf == [m |-> 1, e |-> -1]    \* float factor = 0.5

\* float promoted to double: exact
FloatToDouble(a) == [neg |-> FALSE, m |-> a.m, e |-> a.e]

DoubleZero == [neg |-> FALSE, m |-> 0, e |-> 0]   \* return 0
DoubleOne == [neg |-> FALSE, m |-> 1, e |-> 0]    \* 1.0

\* the sum of two doubles of the same sign
DoubleAdd(a, b) ==
  LET e == Min(a.e, b.e)
      s == RoundToPrecision(a.m * Pow2(a.e - e) + b.m * Pow2(b.e - e), e, DBL_MANT_DIG)
  IN  [neg |-> a.neg, m |-> s.m, e |-> s.e]

DoubleMul(a, b) ==
  LET p == RoundToPrecision(a.m * b.m, a.e + b.e, DBL_MANT_DIG)
  IN  [neg |-> (a.neg # b.neg), m |-> p.m, e |-> p.e]

\* pow(-1.0, sign), for a sign that is a non-negative whole number: -1.0 when
\* it is odd, 1.0 when it is even
PowMinusOne(sign) == [neg |-> (sign.m # 0 /\ sign.e = 0), m |-> 1, e |-> 0]

\* pow(2.0, k) for a whole number k
PowTwo(k) == [neg |-> FALSE, m |-> 1, e |-> k]

\* the whole number a float holds
FloatToInt(a) == a.m * Pow2(a.e)

-----------------------------------------------------------------------------
(* parse_bits *)

\* parse_bits without the doubling of the accumulator
RECURSIVE ParseIntegerNoDoubling(_, _, _)
ParseIntegerNoDoubling(str, i, a) ==
  IF Assigned(a) /\ str[i] = NUL THEN a
  ELSE ParseIntegerNoDoubling(str, i + 1, FloatAdd(a, IntToFloat(str[i] - Char0)))

RECURSIVE ParseInteger(_, _, _)
ParseInteger(str, i, a) ==
  IF Assigned(a) /\ str[i] = NUL THEN a
  ELSE ParseInteger(str, i + 1,
                    FloatAdd(FloatMul(a, IntToFloat(2)), IntToFloat(str[i] - Char0)))

\* parse_bits without the halving of the factor
RECURSIVE ParseFractionalNoHalving(_, _, _, _)
ParseFractionalNoHalving(str, i, a, factor) ==
  IF Assigned(a) /\ Assigned(factor) /\ str[i] = NUL THEN a
  ELSE ParseFractionalNoHalving(str, i + 1,
                                FloatAdd(a, FloatMul(IntToFloat(str[i] - Char0), factor)),
                                factor)

RECURSIVE ParseFractional(_, _, _, _)
ParseFractional(str, i, a, factor) ==
  IF Assigned(a) /\ Assigned(factor) /\ str[i] = NUL THEN a
  ELSE ParseFractional(str, i + 1,
                       FloatAdd(a, FloatMul(IntToFloat(str[i] - Char0), factor)),
                       FloatDiv2(factor))

parse_bits(str, fractional) ==
  IF fractional = 0
  THEN ParseInteger(str, 1, FloatZero)
  ELSE ParseFractional(str, 1, FloatZero, FloatHalf)

-----------------------------------------------------------------------------
(* convert_ieee_float: the value returned and the messages written, from    *)
(* the three strings full_float[0], full_float[1], full_float[2].           *)

\* convert_ieee_float with the sign dropped
SignPartPositive(sign) == PowTwo(0)

SignPart(sign) == PowMinusOne(sign)

\* convert_ieee_float with the bias applied to the subnormal case only
ExpPartUnbiased(exponent) ==
  IF exponent = FloatZero
  THEN PowTwo(1 - exponent_size)
  ELSE PowTwo(FloatToInt(exponent))

ExpPart(exponent) ==
  IF exponent = FloatZero
  THEN PowTwo(1 - exponent_size)
  ELSE PowTwo(FloatToInt(exponent) - exponent_size)

FracPart(fraction) == DoubleAdd(DoubleOne, FloatToDouble(fraction))

\* convert_ieee_float testing the exponent against 254
IsSpecialOffByOne(exponent) == exponent = IntToFloat(SpecialExponent - 1)

IsSpecial(exponent) == exponent = IntToFloat(SpecialExponent)

convert_ieee_float(s0, s1, s2) ==
  LET sign     == parse_bits(s0, 0)
      exponent == parse_bits(s1, 0)
      fraction == parse_bits(s2, 1)
  IN  IF IsSpecial(exponent)
      THEN [value |-> DoubleZero, errs |-> <<ExponentError>>]
      ELSE [value |-> DoubleMul(DoubleMul(SignPart(sign), ExpPart(exponent)),
                                FracPart(fraction)),
            errs  |-> <<>>]

-----------------------------------------------------------------------------
(* The heap.  A block's data is the sequence of its cells up to the last    *)
(* one written, the C index i being the TLA+ index i + 1; a cell skipped    *)
(* by the writes holds -1, no character and no pointer.                     *)

HeapBlocks == {"whole_float", "whole_float[0]", "whole_float[1]", "whole_float[2]"}

EmptyData == <<>>

EmptyHeap == [b \in HeapBlocks |-> [status |-> "unallocated", frees |-> 0, data |-> EmptyData]]

Malloc(h, b) == [h EXCEPT ![b].status = "allocated", ![b].data = EmptyData]

Free(h, b) == [h EXCEPT ![b].status = "freed", ![b].frees = @ + 1]

Write(data, i, c) ==
  IF i < Len(data) THEN [data EXCEPT ![i + 1] = c]
  ELSE data \o [k \in 1..(i - Len(data)) |-> 0 - 1] \o <<c>>

Store(h, b, i, c) == [h EXCEPT ![b].data = Write(@, i, c)]

\* the cells of a block from index 0 on, as parse_bits and printf walk them
CellsOf(data) == data

-----------------------------------------------------------------------------
(* split_binary_float *)

\* i < 8 && current_bit: the test is of the pointer, not of the character
LoopContinues(buf, current_bit, i, n) == i < n /\ current_bit # NULL

\* the copy loop without current_bit++
RECURSIVE CopyBitsNoAdvance(_, _, _, _, _, _)
CopyBitsNoAdvance(buf, current_bit, i, n, data, reads) ==
  IF Assigned(data) /\ Assigned(reads) /\ i < n /\ current_bit # NULL
  THEN CopyBitsNoAdvance(buf, current_bit, i + 1, n,
                         Write(data, i, buf[current_bit.off + 1]),
                         reads \cup {current_bit.off})
  ELSE [data |-> data, reads |-> reads, current_bit |-> current_bit]

\* for (int i = 0; i < n && current_bit; i++, current_bit++) dst[i] = *current_bit;
RECURSIVE CopyBits(_, _, _, _, _, _)
CopyBits(buf, current_bit, i, n, data, reads) ==
  IF Assigned(data) /\ Assigned(reads) /\ LoopContinues(buf, current_bit, i, n)
  THEN CopyBits(buf, Ptr(current_bit.obj, current_bit.off + 1), i + 1, n,
                Write(data, i, buf[current_bit.off + 1]),
                reads \cup {current_bit.off})
  ELSE [data |-> data, reads |-> reads, current_bit |-> current_bit]

\* the failure paths with free(whole_float[0]) forgotten on the last one
ReleasedOnFailureLeaky(b) ==
  CASE b = "whole_float"    -> <<>>
    [] b = "whole_float[0]" -> <<"whole_float">>
    [] b = "whole_float[1]" -> <<"whole_float[0]", "whole_float">>
    [] b = "whole_float[2]" -> <<"whole_float[1]", "whole_float">>

\* the blocks released when the malloc of block b has failed
ReleasedOnFailure(b) ==
  CASE b = "whole_float"    -> <<>>
    [] b = "whole_float[0]" -> <<"whole_float">>
    [] b = "whole_float[1]" -> <<"whole_float[0]", "whole_float">>
    [] b = "whole_float[2]" -> <<"whole_float[0]", "whole_float[1]", "whole_float">>

RECURSIVE FreeAll(_, _)
FreeAll(h, bs) == IF bs = <<>> THEN h ELSE FreeAll(Free(h, Head(bs)), Tail(bs))

\* the return of a failed call: perror, the free() calls, return NULL
FailedSplit(h, b, reads) ==
  [ret |-> NULL, heap |-> FreeAll(h, ReleasedOnFailure(b)), reads |-> reads,
   errs |-> <<AllocError>>]

\* fail: the number of the malloc that returns NULL in this call (0: none)
split_binary_float(binary_float, fail, h) ==
  IF fail = 1 THEN FailedSplit(h, "whole_float", {})
  ELSE
  LET h1 == Malloc(h, "whole_float") IN
  IF fail = 2 THEN FailedSplit(Store(h1, "whole_float", 0, NULL), "whole_float[0]", {})
  ELSE
  LET h2 == Store(Store(Store(Malloc(h1, "whole_float[0]"),
                              "whole_float", 0, Ptr("whole_float[0]", 0)),
                        "whole_float[0]", 0, binary_float[1]),
                  "whole_float[0]", 1, NUL)
      cur1 == Ptr("user_binary_float", 1)
  IN
  IF fail = 3 THEN FailedSplit(Store(h2, "whole_float", 1, NULL), "whole_float[1]", {0})
  ELSE
  LET h3 == Store(Malloc(h2, "whole_float[1]"), "whole_float", 1, Ptr("whole_float[1]", 0))
      l1 == CopyBits(binary_float, cur1, 0, ExponentBits, EmptyData, {0})
      h4 == [h3 EXCEPT !["whole_float[1]"].data = Write(l1.data, ExponentBits, NUL)]
  IN
  IF fail = 4 THEN FailedSplit(Store(h4, "whole_float", 2, NULL), "whole_float[2]", l1.reads)
  ELSE
  LET h5 == Store(Malloc(h4, "whole_float[2]"), "whole_float", 2, Ptr("whole_float[2]", 0))
      l2 == CopyBits(binary_float, l1.current_bit, 0, FractionBits, EmptyData, l1.reads)
      h6 == [h5 EXCEPT !["whole_float[2]"].data = Write(l2.data, FractionBits, NUL)]
  IN  [ret |-> Ptr("whole_float", 0), heap |-> h6, reads |-> l2.reads, errs |-> <<>>]

-----------------------------------------------------------------------------
(* The inputs. *)

\* what a cell that was never written may hold
Garbage == {NUL, Char0, Char1}

Flip(c) == IF c = Char0 THEN Char1 ELSE Char0

\* the strings of n bits in which at most k differ from the bit c
RECURSIVE NearConstant(_, _, _)
NearConstant(n, c, k) ==
  IF k = 0 THEN {[i \in 1..n |-> c]}
  ELSE LET P == NearConstant(n, c, k - 1)
       IN  P \cup {[s EXCEPT ![i] = Flip(c)] : s \in P, i \in 1..n}

SignFields == {<<Char0>>, <<Char1>>}

\* the exponent fields within one bit of 00000000 or of 11111111: 0, 1, 2, 4,
\* ..., 128 and 255, 254, 253, 251, ..., 127
ExponentFields == NearConstant(ExponentBits, Char0, 1) \cup NearConstant(ExponentBits, Char1, 1)

\* the fraction fields within one bit of all zeros or of all ones
FractionFields == NearConstant(FractionBits, Char0, 1) \cup NearConstant(FractionBits, Char1, 1)

InputLengths == (InputBits - MaxMissing)..InputBits

-----------------------------------------------------------------------------
(* main *)

Init ==
  /\ pc = "scanf"
  /\ \E g \in Garbage : user_binary_float = [i \in 1..BufferSize |-> g]
  /\ input_len = 0
  /\ heap = EmptyHeap
  /\ parsed_float = NULL
  /\ malloc_fail_at = 0
  /\ cells_read = {}
  /\ decimal_float = DoubleZero
  /\ err_stream = <<>>
  /\ outcome = "running"
  /\ exit_status = 0
  /\ binary_string = <<>>
  /\ is_fractional = 0
  /\ parse_pc = "input"
  /\ acc = FloatZero

\* scanf("%s", user_binary_float): the characters, then the terminator
Scanf ==
  /\ pc = "scanf"
  /\ \E s \in SignFields, e \in ExponentFields, f \in FractionFields, n \in InputLengths :
       LET text == SubSeq(s \o e \o f, 1, n) IN
       /\ user_binary_float' = [i \in 1..BufferSize |->
                                  IF i <= n THEN text[i]
                                  ELSE IF i = n + 1 THEN NUL
                                  ELSE user_binary_float[i]]
       /\ input_len' = n
  /\ pc' = "split"
  /\ UNCHANGED <<heap, parsed_float, malloc_fail_at, cells_read, decimal_float,
                 err_stream, outcome, exit_status, parseVars>>

\* char **parsed_float = split_binary_float(user_binary_float);
SplitBinaryFloat ==
  /\ pc = "split"
  /\ \E fail \in 0..Cardinality(HeapBlocks) :
       LET r == split_binary_float(user_binary_float, fail, heap) IN
       /\ malloc_fail_at' = fail
       /\ parsed_float' = r.ret
       /\ heap' = r.heap
       /\ cells_read' = r.reads
       /\ err_stream' = err_stream \o r.errs
  /\ pc' = "convert"
  /\ UNCHANGED <<user_binary_float, input_len, decimal_float, outcome, exit_status,
                 parseVars>>

\* full_float[k] as a string
FieldString(h, k) == CellsOf(h[h["whole_float"].data[k + 1].obj].data)

\* double decimal_float = convert_ieee_float(parsed_float);
ConvertIeeeFloat ==
  /\ pc = "convert"
  /\ parsed_float # NULL
  /\ LET r == convert_ieee_float(FieldString(heap, 0), FieldString(heap, 1),
                                 FieldString(heap, 2)) IN
       /\ decimal_float' = r.value
       /\ err_stream' = err_stream \o r.errs
  /\ pc' = "finish"
  /\ UNCHANGED <<user_binary_float, input_len, heap, parsed_float, malloc_fail_at,
                 cells_read, outcome, exit_status, parseVars>>

\* what reading full_float[0] through a null full_float may do: the process
\* is killed, or nothing shows and main goes on to return
NullDerefOutcomes == {"crashed", "returned"}

\* convert_ieee_float(NULL): parse_bits(full_float[0], 0) reads through NULL
ConvertNullDeref ==
  /\ pc = "convert"
  /\ parsed_float = NULL
  /\ outcome' \in NullDerefOutcomes
  /\ pc' = "done"
  /\ UNCHANGED <<user_binary_float, input_len, heap, parsed_float, malloc_fail_at,
                 cells_read, decimal_float, err_stream, exit_status, parseVars>>

\* printf, the four free() calls, return 0
MainFinish ==
  /\ pc = "finish"
  /\ heap' = FreeAll(heap, <<"whole_float[0]", "whole_float[1]", "whole_float[2]",
                             "whole_float">>)
  /\ outcome' = "returned"
  /\ exit_status' = 0
  /\ pc' = "done"
  /\ UNCHANGED <<user_binary_float, input_len, parsed_float, malloc_fail_at,
                 cells_read, decimal_float, err_stream, parseVars>>

Next == Scanf \/ SplitBinaryFloat \/ ConvertIeeeFloat \/ ConvertNullDeref \/ MainFinish

Spec == Init /\ [][Next]_vars

-----------------------------------------------------------------------------
(* parse_bits taken alone: the argument and the flag are drawn in InitParse, *)
(* CallParseBits applies the function.                                       *)

ParseArguments == UNION {NearConstant(n, Char0, MaxParseOnes) : n \in 0..MaxLen}

ParseFlags == {0, 1, 2}

InitParse ==
  /\ pc = "scanf"
  /\ user_binary_float = [i \in 1..BufferSize |-> NUL]
  /\ input_len = 0
  /\ heap = EmptyHeap
  /\ parsed_float = NULL
  /\ malloc_fail_at = 0
  /\ cells_read = {}
  /\ decimal_float = DoubleZero
  /\ err_stream = <<>>
  /\ outcome = "running"
  /\ exit_status = 0
  /\ binary_string \in ParseArguments
  /\ is_fractional \in ParseFlags
  /\ parse_pc = "input"
  /\ acc = FloatZero

CallParseBits ==
  /\ parse_pc = "input"
  /\ acc' = parse_bits(binary_string \o <<NUL>>, is_fractional)
  /\ parse_pc' = "called"
  /\ UNCHANGED <<binary_string, is_fractional, mainVars>>

NextParse == CallParseBits

SpecParse == InitParse /\ [][NextParse]_vars

-----------------------------------------------------------------------------
(* The quantities the properties speak of. *)

\* the big-endian value of a string of '0' and '1' characters
RECURSIVE BitsValue(_)
BitsValue(s) ==
  IF s = <<>> THEN 0
  ELSE 2 * BitsValue(SubSeq(s, 1, Len(s) - 1)) + (IF s[Len(s)] = 49 THEN 1 ELSE 0)

\* the double (-1)^s * m * 2^e
Signed(s, m, e) ==
  LET n == Normalize(m, e) IN [neg |-> (s = 1), m |-> n.m, e |-> n.e]

\* equality of doubles as numbers: +0.0 and -0.0 are the same number
NumEq(a, b) == (a.m = 0 /\ b.m = 0) \/ a = b

Negate(d) == [d EXCEPT !.neg = ~@]

SignBit == IF user_binary_float[1] = 49 THEN 1 ELSE 0

ExponentValue == BitsValue(SubSeq(user_binary_float, 2, 9))

FractionNumerator == BitsValue(SubSeq(user_binary_float, 10, 32))

FullInput == input_len = 32

\* split_binary_float has returned the three fields
SplitDone == pc \in {"convert", "finish"} /\ parsed_float # NULL

\* convert_ieee_float has returned
Converted == pc \in {"finish", "done"} /\ parsed_float # NULL

\* the value the pipeline returns for the input with character 0 flipped
FlippedValue ==
  LET b == [user_binary_float EXCEPT ![1] = Flip(@)]
      h == split_binary_float(b, 0, EmptyHeap).heap
  IN  convert_ieee_float(FieldString(h, 0), FieldString(h, 1), FieldString(h, 2)).value

-----------------------------------------------------------------------------
(* The properties. *)

\* C1: for a 32-character input whose exponent field e is in 1..254, the
\* pipeline returns (-1)^s * 2^(e-127) * (1 + f), f being the fraction field
\* read as a binary fraction, that is (-1)^s * (2^23 + F) * 2^(e-150) with F
\* the fraction field read as an integer.
C1_NormalValue ==
  (Converted /\ FullInput /\ ExponentValue >= 1 /\ ExponentValue <= 254)
    => decimal_float = Signed(SignBit, Pow2(23) + FractionNumerator, ExponentValue - 150)

\* a negative normal value with a non-zero fraction has been returned
C1_Witness ==
  /\ Converted /\ FullInput
  /\ SignBit = 1 /\ ExponentValue = 127 /\ FractionNumerator = Pow2(22)
  /\ decimal_float = [neg |-> TRUE, m |-> 3, e |-> -1]

\* C2: for an input whose exponent field is all zeros the pipeline returns
\* (-1)^s * 2^-126 * f with no implicit leading 1, and 0.0 when the fraction
\* field is all zeros too.
C2_SubnormalValue ==
  (Converted /\ FullInput /\ ExponentValue = 0)
    => NumEq(decimal_float, Signed(SignBit, FractionNumerator, -149))

\* C3: for an input whose exponent field is all ones, whatever the sign and
\* the fraction, convert_ieee_float writes its message to the error stream and
\* returns 0.0.
C3_SpecialExponent ==
  (Converted /\ ExponentValue = 255)
    => decimal_float = DoubleZero /\ err_stream = <<ExponentError>>

\* the sentinel has been returned for a negative input with a non-zero fraction
C3_Witness ==
  /\ Converted /\ FullInput
  /\ ExponentValue = 255 /\ SignBit = 1 /\ FractionNumerator # 0
  /\ decimal_float = DoubleZero

\* C4: the value decoded from a 32-character input is, as a number, the
\* negation of the value decoded from the input that differs in character 0
\* only.
C4_SignNegates ==
  (Converted /\ FullInput) => NumEq(decimal_float, Negate(FlippedValue))

\* a negative non-zero value has been returned for an input of sign bit 1
C4_Witness ==
  /\ Converted /\ FullInput
  /\ SignBit = 1 /\ ExponentValue = 128 /\ FractionNumerator = 0
  /\ decimal_float = [neg |-> TRUE, m |-> 1, e |-> 1]
  /\ FlippedValue = [neg |-> FALSE, m |-> 1, e |-> 1]

\* C5: for a 32-character input, the sign field is character 0, the exponent
\* field characters 1..8 and the fraction field characters 9..31, in order,
\* each followed by its terminator; concatenated they are the input.
C5_FieldsOfInput ==
  (SplitDone /\ FullInput)
    => /\ FieldString(heap, 0) = SubSeq(user_binary_float, 1, 1) \o <<NUL>>
       /\ FieldString(heap, 1) = SubSeq(user_binary_float, 2, 9) \o <<NUL>>
       /\ FieldString(heap, 2) = SubSeq(user_binary_float, 10, 32) \o <<NUL>>
       /\ SubSeq(FieldString(heap, 0), 1, 1) \o SubSeq(FieldString(heap, 1), 1, 8)
            \o SubSeq(FieldString(heap, 2), 1, 23)
          = SubSeq(user_binary_float, 1, input_len)

\* the fields of an input with both characters in its exponent field and a '1'
\* in its fraction field have been extracted
C5_Witness ==
  /\ SplitDone /\ FullInput /\ pc = "convert"
  /\ ExponentValue = 64 /\ FractionNumerator = 1
  /\ FieldString(heap, 2)[23] = 49

\* C6: for an input of fewer than 32 characters, split_binary_float reads no
\* cell of the input beyond its terminator.
C6_StopsAtTerminator ==
  (pc \in {"convert", "finish", "done"} /\ input_len < 32)
    => \A i \in cells_read : i <= input_len

\* C7: every run ends with main returning 0, the runs with an exponent field
\* of 255 or a failed allocation included.
C7_ExitStatusZero ==
  pc = "done" => outcome = "returned" /\ exit_status = 0

\* the blocks in the order split_binary_float allocates them
AllocationOrder == <<"whole_float", "whole_float[0]", "whole_float[1]", "whole_float[2]">>

\* C8: when a malloc of split_binary_float fails, the function returns NULL
\* and each block allocated earlier in the call has been freed exactly once;
\* when none fails it returns an array of three non-null strings.

C8_AllocationFailure ==
  pc = "convert" =>
    IF malloc_fail_at = 0
    THEN /\ parsed_float # NULL
         /\ \A k \in 0..2 : /\ heap["whole_float"].data[k + 1] # NULL
                            /\ heap[heap["whole_float"].data[k + 1].obj].status = "allocated"
         /\ \A b \in HeapBlocks : heap[b].status = "allocated" /\ heap[b].frees = 0
    ELSE /\ parsed_float = NULL
         /\ AllocError \in {err_stream[i] : i \in 1..Len(err_stream)}
         /\ \A k \in 1..4 :
              IF k < malloc_fail_at
              THEN /\ heap[AllocationOrder[k]].status = "freed"
                   /\ heap[AllocationOrder[k]].frees = 1
              ELSE /\ heap[AllocationOrder[k]].status = "unallocated"
                   /\ heap[AllocationOrder[k]].frees = 0

\* the last malloc has failed and the three earlier blocks are freed
C8_Witness ==
  /\ pc = "convert" /\ malloc_fail_at = 4 /\ parsed_float = NULL
  /\ heap["whole_float[0]"].frees = 1
  /\ heap["whole_float[1]"].frees = 1
  /\ heap["whole_float"].frees = 1

ParseCalled == parse_pc = "called"

IntegerMode == ParseCalled /\ is_fractional = 0

FractionalMode == ParseCalled /\ is_fractional # 0

AllZeros(s) == \A i \in 1..Len(s) : s[i] = 48

\* the float is a whole number in lo..hi
WholeIn(a, lo, hi) == a.e >= 0 /\ a.m * Pow2(a.e) >= lo /\ a.m * Pow2(a.e) <= hi

\* the float is in [0, 1)
InUnitInterval(a) == a.m = 0 \/ (a.e < 0 /\ a.m < Pow2(0 - a.e))

\* C9, as claimed: in integer mode parse_bits returns the big-endian value of
\* every string of '0' and '1' characters.
C9_IntegerValue ==
  IntegerMode => acc = Normalize(BitsValue(binary_string), 0)

\* C9, amended: in integer mode parse_bits returns the big-endian value of
\* every string of at most 24 characters; every all-zero string gives 0, a
\* 1-bit string 0 or 1, an 8-bit string a whole number in 0..255.
C9_IntegerValueUpTo24 ==
  IntegerMode =>
    /\ Len(binary_string) <= 24 => acc = Normalize(BitsValue(binary_string), 0)
    /\ AllZeros(binary_string) => acc = FloatZero
    /\ Len(binary_string) = 1 => WholeIn(acc, 0, 1)
    /\ Len(binary_string) = 8 => WholeIn(acc, 0, 255)

\* the value of a 24-character string with a '1' at both ends has been returned
C9_Witness ==
  /\ IntegerMode /\ Len(binary_string) = 24
  /\ binary_string[1] = 49 /\ binary_string[24] = 49
  /\ acc = [m |-> Pow2(23) + 1, e |-> 0]

\* the string without its trailing '0' characters
RECURSIVE StripZeros(_)
StripZeros(s) ==
  IF s # <<>> /\ s[Len(s)] = 48 THEN StripZeros(SubSeq(s, 1, Len(s) - 1)) ELSE s

\* C10, as claimed: in fractional mode parse_bits returns the sum of
\* bit_i * 2^-(i+1) for every string of '0' and '1' characters.
C10_FractionValue ==
  FractionalMode => acc = Normalize(BitsValue(binary_string), 0 - Len(binary_string))

\* C10, amended: in fractional mode parse_bits returns the sum of
\* bit_i * 2^-(i+1) for every string of at most 24 characters; a 23-bit string
\* gives a value in [0, 1); trailing '0' characters do not change the value,
\* and '1' followed by any number of zeros gives 0.5.
C10_FractionValueUpTo24 ==
  FractionalMode =>
    /\ Len(binary_string) <= 24
         => acc = Normalize(BitsValue(binary_string), 0 - Len(binary_string))
    /\ Len(binary_string) = 23 => InUnitInterval(acc)
    /\ acc = parse_bits(StripZeros(binary_string) \o <<NUL>>, is_fractional)
    /\ StripZeros(binary_string) = <<49>> => acc = [m |-> 1, e |-> -1]

\* the value of a 24-character string with a '1' at both ends has been returned
C10_Witness ==
  /\ FractionalMode /\ Len(binary_string) = 24
  /\ binary_string[1] = 49 /\ binary_string[24] = 49
  /\ acc = [m |-> Pow2(23) + 1, e |-> -24]

====
